---- MODULE Spec2Model ----
(***************************************************************************)
(* Model of django/db/backends/oracle/query.py: the query_class factory    *)
(* with its module-level cache _classes, and the OracleQuery subclass it   *)
(* builds (set_limits, clear_limits, as_sql, resolve_columns,              *)
(* convert_values).                                                        *)
(*                                                                         *)
(* The base Query class (django.db.models.sql.query.Query) is not part of  *)
(* the source file; what OracleQuery calls through super() is modelled     *)
(* from the specification and named Base... below.                         *)
(***************************************************************************)
EXTENDS Integers, Sequences, FiniteSets, TLC

(* ------------------------------------------------------------------ *)
(* Bounds of the model                                                 *)
(* ------------------------------------------------------------------ *)

\* Row bounds passed to set_limits range over 0..MaxMark.
MaxMark == 2

\* Threads calling query_class
NThreads == 2

\* Calls of query_class in one behaviour
MaxCalls == 3

\* Longest row and longest field list handed to resolve_columns
MaxRow == 3

MaxFields == 2

(* ------------------------------------------------------------------ *)
(* Python values                                                       *)
(* ------------------------------------------------------------------ *)

\* An optional value is a sequence of length at most one: None is <<>>.
None == <<>>

Some(v) == <<v>>

\* Python truthiness of an optional integer: None and 0 are false.
Truthy(o) == o # None /\ o[1] # 0

\* sep.join(seq) for a sequence of strings
RECURSIVE Join(_, _)
Join(seq, sep) ==
    IF seq = <<>> THEN ""
    ELSE IF Len(seq) = 1 THEN seq[1]
    ELSE seq[1] \o sep \o Join(Tail(seq), sep)

\* ' '.join(result) of as_sql's return statement
SpaceJoin(result) == Join(result, " ")

(* ------------------------------------------------------------------ *)
(* The extra_select mapping: an ordered mapping, a sequence of         *)
(* [key, val] entries with distinct keys                               *)
(* ------------------------------------------------------------------ *)

Keys(es) == {es[i].key : i \in 1..Len(es)}

HasKey(es, k) == k \in Keys(es)

Lookup(es, k) == (CHOOSE i \in 1..Len(es) : es[i].key = k)

Get(es, k) == es[Lookup(es, k)].val

\* es[k] = v: an existing key keeps its position, a new key is appended
SetItem(es, k, v) ==
    IF HasKey(es, k)
    THEN [es EXCEPT ![Lookup(es, k)] = [key |-> k, val |-> v]]
    ELSE Append(es, [key |-> k, val |-> v])

\* del es[k]
DelItem(es, k) == SelectSeq(es, LAMBDA e : e.key # k)

(* ------------------------------------------------------------------ *)
(* State                                                               *)
(* ------------------------------------------------------------------ *)

VARIABLES
    low_mark,      \* Query.low_mark: an integer, 0 when no offset is set
    high_mark,     \* Query.high_mark: None or Some(integer)
    extra_select,  \* Query.extra_select
    ordering,      \* what the base get_ordering() returns: a sequence of strings
    params,        \* the bind parameters the base as_sql returns
    db_column,     \* opts.fields[0].db_column: "" when not given
    last,          \* the last operation called on the query, with its arguments
    ret,           \* what the last as_sql returned: None or Some([sql, params])
    phase          \* history: "new", "limited" (set_limits with a bound),
                   \* "cleared" (clear_limits after that, no set_limits since)

qvars == <<low_mark, high_mark, extra_select, ordering, params, db_column,
           last, ret, phase>>

VARIABLES
    _classes,      \* the module-level cache: base class -> None or Some(class)
    pc,            \* where each thread is in query_class
    args,          \* each thread's arguments (QueryClass, Database)
    OracleQuery,   \* each thread's local OracleQuery: None or Some(class)
    nclasses,      \* class objects created so far (object identity)
    ncalls,        \* calls of query_class made so far
    returned,      \* history: what the calls returned, a set of [base, cls,
                   \* Database]: the call's arguments and the class returned
    raced          \* history: base classes for which a lookup missed while
                   \* another thread was already building the class

regvars == <<_classes, pc, args, OracleQuery, nclasses, ncalls, returned, raced>>

VARIABLES
    row,           \* resolve_columns' argument row
    fields,        \* resolve_columns' argument fields
    values         \* what resolve_columns returned: None or Some(list)

rowvars == <<row, fields, values>>

VARIABLES
    value_in,      \* convert_values' argument value
    field_in,      \* convert_values' argument field
    converted      \* what convert_values returned: None or Some(value)

convvars == <<value_in, field_in, converted>>

vars == <<qvars, regvars, rowvars, convvars>>

(* ------------------------------------------------------------------ *)
(* The base Query class, modelled from the specification               *)
(* ------------------------------------------------------------------ *)

db_table == "T"

column == "ID"

\* quote_name_unless_alias
qn(name) == "\"" \o name \o "\""

\* The orderings a query may carry
Orderings == {<<>>, <<"\"T\".\"NAME\" ASC">>, <<"\"T\".\"NAME\" ASC", "\"T\".\"ID\" DESC">>}

\* The parameter lists of the query's WHERE clause
ParamLists == {<<>>, <<"p1", "p2">>}

\* The extra-select mappings a caller may have built with extra(select=...)
UserExtras == {<<>>, <<[key |-> "a", val |-> "x+1"]>>}

\* Query.as_sql of the base class: the SELECT list carries every
\* extra-select entry, then the model's column; limits are rendered only
\* when with_limits is true.
BaseAsSql(es, ord, prm, lo, hi, with_limits, with_col_aliases) ==
    LET extras == [i \in 1..Len(es) |-> "(" \o es[i].val \o ") AS " \o qn(es[i].key)]
        col    == qn(db_table) \o "." \o qn(column)
                    \o (IF with_col_aliases THEN " AS Col1" ELSE "")
        sel    == "SELECT " \o Join(Append(extras, col), ", ") \o " FROM " \o qn(db_table)
                    \o (IF prm # <<>> THEN " WHERE \"T\".\"X\" = %s AND \"T\".\"Y\" = %s" ELSE "")
        ordby  == IF ord # <<>> THEN " ORDER BY " \o Join(ord, ", ") ELSE ""
        limit  == IF with_limits /\ hi # None
                  THEN " LIMIT " \o ToString(hi[1] - lo) ELSE ""
        offset == IF with_limits /\ lo # 0
                  THEN " OFFSET " \o ToString(lo) ELSE ""
    IN  [sql |-> sel \o ordby \o limit \o offset, params |-> prm]

\* Query.set_limits of the base class: stores the bounds that are given
BaseSetLimits(low, high) ==
    /\ low_mark'  = IF low # None THEN low[1] ELSE low_mark
    /\ high_mark' = IF high # None THEN high ELSE high_mark

\* Query.clear_limits of the base class
BaseClearLimits ==
    /\ low_mark'  = 0
    /\ high_mark' = None

(* ------------------------------------------------------------------ *)
(* OracleQuery: set_limits, clear_limits, as_sql                       *)
(* ------------------------------------------------------------------ *)

Marks == {None} \cup {Some(n) : n \in 0..MaxMark}

set_limits(low, high) ==
    /\ BaseSetLimits(low, high)
    /\ extra_select' = SetItem(extra_select, "rn", "1")
    /\ last' = [op |-> "set_limits", low |-> low, high |-> high]
    /\ phase' = IF low # None \/ high # None THEN "limited"
                ELSE IF phase = "cleared" THEN "new" ELSE phase
    /\ UNCHANGED <<ordering, params, db_column, ret>>

ClearRn_kept(es) == es

ClearRn_all(es) == <<>>

\* if 'rn' in self.extra_select: del self.extra_select['rn']
ClearRn(es) == IF HasKey(es, "rn") THEN DelItem(es, "rn") ELSE es

clear_limits ==
    /\ BaseClearLimits
    /\ extra_select' = ClearRn(extra_select)
    /\ last' = [op |-> "clear_limits", had_rn |-> HasKey(extra_select, "rn"),
                before |-> extra_select]
    /\ phase' = IF phase = "limited" THEN "cleared" ELSE phase
    /\ UNCHANGED <<ordering, params, db_column, ret>>

\* do_offset = with_limits and (self.high_mark or self.low_mark)
do_offset_high_only(with_limits) == with_limits /\ Truthy(high_mark)

do_offset(with_limits) == with_limits /\ (Truthy(high_mark) \/ low_mark # 0)

rn_orderby_comma ==
    IF ordering # <<>> THEN Join(ordering, ",")
    ELSE qn(db_table) \o "." \o qn(IF db_column # "" THEN db_column ELSE column)

\* The "ORDER BY" SQL for the ROW_NUMBER() result
rn_orderby ==
    IF ordering # <<>> THEN Join(ordering, ", ")
    ELSE qn(db_table) \o "." \o qn(IF db_column # "" THEN db_column ELSE column)

\* The value as_sql stores under extra_select['rn']
RowNumber == "ROW_NUMBER() OVER (ORDER BY " \o rn_orderby \o " )"

\* The clauses as_sql appends after the wrapped SELECT
LimitClauses ==
    <<"WHERE rn > " \o ToString(low_mark)>>
      \o (IF Truthy(high_mark) THEN <<"AND rn <= " \o ToString(high_mark[1])>> ELSE <<>>)

PagedExtra_if_absent ==
    IF HasKey(extra_select, "rn") THEN extra_select
    ELSE SetItem(extra_select, "rn", RowNumber)

\* The extra_select mapping the inner SELECT is generated from
PagedExtra == SetItem(extra_select, "rn", RowNumber)

InnerSql_stale == BaseAsSql(extra_select, ordering, params, low_mark, high_mark, FALSE, TRUE)

\* The inner SELECT of the paginated query
InnerSql == BaseAsSql(PagedExtra, ordering, params, low_mark, high_mark, FALSE, TRUE)

Delegated_aliased(with_col_aliases) ==
    BaseAsSql(extra_select, ordering, params, low_mark, high_mark, FALSE, TRUE)

\* What the delegating path returns
Delegated(with_col_aliases) ==
    BaseAsSql(extra_select, ordering, params, low_mark, high_mark, FALSE, with_col_aliases)

\* The list `result` of the paginated path
PagedResult == <<"SELECT * FROM (" \o InnerSql.sql \o ")">> \o LimitClauses

\* The operation before this one was as_sql with the same arguments
Again(with_limits, with_col_aliases) ==
    /\ last.op = "as_sql"
    /\ last.with_limits = with_limits
    /\ last.with_col_aliases = with_col_aliases

\* `last` records the call, the path it took (paged: do_offset), the base
\* methods it called in order, the list `result` before the join, and
\* whether the call repeats the one before it (again).
as_sql(with_limits, with_col_aliases) ==
    IF ~do_offset(with_limits)
    THEN /\ ret' = Some(Delegated(with_col_aliases))
         /\ last' = [op |-> "as_sql", with_limits |-> with_limits,
                     with_col_aliases |-> with_col_aliases, paged |-> FALSE,
                     calls |-> <<"as_sql">>, result |-> <<>>,
                     again |-> Again(with_limits, with_col_aliases)]
         /\ UNCHANGED <<low_mark, high_mark, extra_select, ordering, params,
                        db_column, phase>>
    ELSE /\ extra_select' = PagedExtra
         /\ ret' = Some([sql |-> SpaceJoin(PagedResult), params |-> InnerSql.params])
         /\ last' = [op |-> "as_sql", with_limits |-> with_limits,
                     with_col_aliases |-> with_col_aliases, paged |-> TRUE,
                     calls |-> <<"pre_sql_setup", "get_columns", "get_ordering", "as_sql">>,
                     result |-> PagedResult,
                     again |-> Again(with_limits, with_col_aliases)]
         /\ UNCHANGED <<low_mark, high_mark, ordering, params, db_column, phase>>

(* ------------------------------------------------------------------ *)
(* query_class and the cache _classes                                  *)
(* ------------------------------------------------------------------ *)

Threads == 1..NThreads

\* The base Query classes handed to query_class
QueryClasses == {"Query", "GeoQuery"}

\* The driver modules handed to query_class
Databases == {"cx_Oracle", "cx_Oracle_2"}

\* The class statement: a new class object, a subclass of QueryClass whose
\* methods close over Database
NewClass(QueryClass, Database) ==
    [id |-> nclasses + 1, base |-> QueryClass, Database |-> Database]

\* A thread enters query_class(QueryClass, Database)
Call(t, QueryClass, Database) ==
    /\ pc[t] = "idle"
    /\ ncalls < MaxCalls
    /\ pc' = [pc EXCEPT ![t] = "try"]
    /\ args' = [args EXCEPT ![t] = [QueryClass |-> QueryClass, Database |-> Database]]
    /\ ncalls' = ncalls + 1
    /\ UNCHANGED <<_classes, OracleQuery, nclasses, returned, raced>>

CacheHit_same_database(t) ==
    /\ _classes[args[t].QueryClass] # None
    /\ _classes[args[t].QueryClass][1].Database = args[t].Database

CacheHit_never(t) == FALSE

\* _classes[QueryClass] finds an entry
CacheHit(t) == _classes[args[t].QueryClass] # None

\* try: return _classes[QueryClass] / except KeyError: pass
Try(t) ==
    /\ pc[t] = "try"
    /\ IF CacheHit(t)
       THEN /\ returned' = returned \cup {[base |-> args[t].QueryClass,
                                           cls  |-> _classes[args[t].QueryClass][1],
                                           Database |-> args[t].Database]}
            /\ pc' = [pc EXCEPT ![t] = "idle"]
            /\ UNCHANGED raced
       ELSE /\ pc' = [pc EXCEPT ![t] = "class"]
            /\ raced' = IF \E u \in Threads \ {t} :
                              /\ pc[u] \in {"class", "store"}
                              /\ args[u].QueryClass = args[t].QueryClass
                        THEN raced \cup {args[t].QueryClass} ELSE raced
            /\ UNCHANGED returned
    /\ UNCHANGED <<_classes, args, OracleQuery, nclasses, ncalls>>

\* class OracleQuery(QueryClass): ...
DefineClass(t) ==
    /\ pc[t] = "class"
    /\ OracleQuery' = [OracleQuery EXCEPT
                         ![t] = Some(NewClass(args[t].QueryClass, args[t].Database))]
    /\ nclasses' = nclasses + 1
    /\ pc' = [pc EXCEPT ![t] = "store"]
    /\ UNCHANGED <<_classes, args, ncalls, returned, raced>>

StoreClass_dropped(t) == _classes

StoreClass_clobber(t) ==
    [c \in QueryClasses |-> IF c = args[t].QueryClass THEN OracleQuery[t] ELSE None]

\* _classes[QueryClass] = OracleQuery
StoreClass(t) == [_classes EXCEPT ![args[t].QueryClass] = OracleQuery[t]]

\* _classes[QueryClass] = OracleQuery; return OracleQuery
Store(t) ==
    /\ pc[t] = "store"
    /\ _classes' = StoreClass(t)
    /\ returned' = returned \cup {[base |-> args[t].QueryClass, cls |-> OracleQuery[t][1],
                                   Database |-> args[t].Database]}
    /\ OracleQuery' = [OracleQuery EXCEPT ![t] = None]
    /\ pc' = [pc EXCEPT ![t] = "idle"]
    /\ UNCHANGED <<args, nclasses, ncalls, raced>>

(* ------------------------------------------------------------------ *)
(* OracleQuery: convert_values, resolve_columns                        *)
(* ------------------------------------------------------------------ *)

\* Driver values.  A number is kept in hundredths (c = 314 is 3.14), so
\* that 1 and 1.0 compare equal as they do in Python.
PyNone == [kind |-> "none"]

PyInt(n) == [kind |-> "int", c |-> 100 * n]

PyFloat(c) == [kind |-> "float", c |-> c]

PyStr(s) == [kind |-> "str", s |-> s]

PyBool(b) == [kind |-> "bool", b |-> b]

\* A Database.LOB handle; read() returns its content
Lob(content) == [kind |-> "lob", content |-> content]

\* A Database.Timestamp: native is TRUE for the driver's own Timestamp
\* class (Python 2.3), FALSE when it is a datetime.datetime
Timestamp(native, y, mo, d, h, mi, sec, us) ==
    [kind |-> "timestamp", native |-> native, year |-> y, month |-> mo, day |-> d,
     hour |-> h, minute |-> mi, second |-> sec, microsecond |-> us]

IsNumber(v) == v.kind \in {"int", "float"}

\* A field descriptor: None, or Some of the record of what the isinstance
\* checks and attribute reads of convert_values see
Field(empty_strings_allowed, boolean, decimal, temporal) ==
    Some([empty_strings_allowed |-> empty_strings_allowed, boolean |-> boolean,
          decimal |-> decimal, temporal |-> temporal, decimal_places |-> 2])

\* field.format_number(value): u"%.*f" % (decimal_places, value), for
\* decimal_places = 2
format_number(value) ==
    LET units == value.c \div 100
        cents == value.c % 100
    IN  ToString(units) \o "." \o (IF cents < 10 THEN "0" ELSE "") \o ToString(cents)

\* An exception leaving convert_values: "%.*f" % (places, value) raises
\* TypeError when value is not a number
Raised(exc) == [kind |-> "raised", exc |-> exc]

\* util.typecast_decimal(s): decimal.Decimal(s)
typecast_decimal(s) == [kind |-> "decimal", text |-> s]

\* value.date(), value.time() and the datetime itself
DateOf(v) == [kind |-> "date", year |-> v.year, month |-> v.month, day |-> v.day]

TimeOf(v) == [kind |-> "time", hour |-> v.hour, minute |-> v.minute,
              second |-> v.second, microsecond |-> v.microsecond]

DateTimeOf(v) == [kind |-> "datetime", year |-> v.year, month |-> v.month, day |-> v.day,
                  hour |-> v.hour, minute |-> v.minute, second |-> v.second,
                  microsecond |-> v.microsecond]

\* datetime.datetime(value.year, ..., value.fsecond) for the driver's own
\* Timestamp class; a datetime.datetime is kept
Normalize(v) == [v EXCEPT !.native = FALSE]

ConvertTimestamp_date_first(value, field) ==
    IF field # None /\ field[1].temporal \in {"date", "datetime"} THEN DateOf(value)
    ELSE IF (field # None /\ field[1].temporal = "time")
             \/ (value.year = 1900 /\ value.month = 1 /\ value.day = 1)
         THEN TimeOf(value)
    ELSE IF value.hour = 0 /\ value.minute = 0 /\ value.second = 0 /\ value.microsecond = 0
         THEN DateOf(value)
    ELSE DateTimeOf(value)

\* The disambiguation by field type of the timestamp branch
ConvertTimestamp(value, field) ==
    IF field # None /\ field[1].temporal = "datetime" THEN DateTimeOf(value)
    ELSE IF field # None /\ field[1].temporal = "date" THEN DateOf(value)
    ELSE IF (field # None /\ field[1].temporal = "time")
             \/ (value.year = 1900 /\ value.month = 1 /\ value.day = 1)
         THEN TimeOf(value)
    ELSE IF value.hour = 0 /\ value.minute = 0 /\ value.second = 0 /\ value.microsecond = 0
         THEN DateOf(value)
    ELSE DateTimeOf(value)

convert_values_decimal_first(value0, field) ==
    LET value == IF value0.kind = "lob" THEN value0.content ELSE value0
    IN  IF value.kind = "none" /\ field # None /\ field[1].empty_strings_allowed
        THEN PyStr("")
        ELSE IF value.kind # "none" /\ field # None /\ field[1].decimal
        THEN IF IsNumber(value) THEN typecast_decimal(format_number(value))
             ELSE Raised("TypeError")
        ELSE IF IsNumber(value) /\ value.c \in {100, 0} /\ field # None /\ field[1].boolean
        THEN PyBool(value.c = 100)
        ELSE IF value.kind = "timestamp"
        THEN ConvertTimestamp(Normalize(value), field)
        ELSE value

convert_values(value0, field) ==
    LET value == IF value0.kind = "lob" THEN value0.content ELSE value0
    IN  IF value.kind = "none" /\ field # None /\ field[1].empty_strings_allowed
        THEN PyStr("")
        ELSE IF IsNumber(value) /\ value.c \in {100, 0} /\ field # None /\ field[1].boolean
        THEN PyBool(value.c = 100)
        ELSE IF value.kind # "none" /\ field # None /\ field[1].decimal
        THEN IF IsNumber(value) THEN typecast_decimal(format_number(value))
             ELSE Raised("TypeError")
        ELSE IF value.kind = "timestamp"
        THEN ConvertTimestamp(Normalize(value), field)
        ELSE value

\* row[:n] and row[n:]
SliceTo(seq, n) == SubSeq(seq, 1, IF n < Len(seq) THEN n ELSE Len(seq))

SliceFrom(seq, n) == IF n < Len(seq) THEN SubSeq(seq, n + 1, Len(seq)) ELSE <<>>

Max(a, b) == IF a > b THEN a ELSE b

Min(a, b) == IF a < b THEN a ELSE b

\* zip(vs, fs): the pairs of vs and fs up to the shorter of the two
ZipShortest(vs, fs) ==
    [i \in 1..Min(Len(vs), Len(fs)) |-> [value |-> vs[i], field |-> fs[i]]]

\* map(None, vs, fs): the pairs of vs and fs, the shorter padded with None
MapNone(vs, fs) ==
    [i \in 1..Max(Len(vs), Len(fs)) |->
        [value |-> IF i <= Len(vs) THEN vs[i] ELSE PyNone,
         field |-> IF i <= Len(fs) THEN fs[i] ELSE None]]

\* The list resolve_columns builds, one convert_values call per element
ResolvedList(r, fs) ==
    LET index_start == Len(extra_select)
        head  == SliceTo(r, index_start)
        pairs == MapNone(SliceFrom(r, index_start), fs)
    IN  [i \in 1..Len(head) |-> convert_values(head[i], None)]
          \o [i \in 1..Len(pairs) |-> convert_values(pairs[i].value, pairs[i].field)]

\* resolve_columns returns the list, or the first exception a
\* convert_values call raised leaves it
resolve_columns(r, fs) ==
    LET out == ResolvedList(r, fs)
    IN  IF \E i \in 1..Len(out) : out[i].kind = "raised"
        THEN [raised |-> TRUE, values |-> <<>>]
        ELSE [raised |-> FALSE, values |-> out]

(* ------------------------------------------------------------------ *)
(* Initial states                                                      *)
(* ------------------------------------------------------------------ *)

\* A new query: no limits, the caller's extra selects, ordering and filter
QueryInit ==
    /\ low_mark = 0
    /\ high_mark = None
    /\ extra_select \in UserExtras
    /\ ordering \in Orderings
    /\ params \in ParamLists
    /\ db_column \in {"", "PK"}
    /\ last = [op |-> "init"]
    /\ ret = None
    /\ phase = "new"

\* One plain query
QueryPlain ==
    /\ low_mark = 0
    /\ high_mark = None
    /\ extra_select = <<>>
    /\ ordering = <<>>
    /\ params = <<>>
    /\ db_column = ""
    /\ last = [op |-> "init"]
    /\ ret = None
    /\ phase = "new"

\* The module as imported: _classes = {}
RegistryInit ==
    /\ _classes = [c \in QueryClasses |-> None]
    /\ pc = [t \in Threads |-> "idle"]
    /\ args = [t \in Threads |-> [QueryClass |-> "Query", Database |-> "cx_Oracle"]]
    /\ OracleQuery = [t \in Threads |-> None]
    /\ nclasses = 0
    /\ ncalls = 0
    /\ returned = {}
    /\ raced = {}

RowInit ==
    /\ row = <<>>
    /\ fields = <<>>
    /\ values = None

ConvInit ==
    /\ value_in = PyNone
    /\ field_in = None
    /\ converted = None

(* ------------------------------------------------------------------ *)
(* Spec: the operations on one Query object                            *)
(* ------------------------------------------------------------------ *)

Init == QueryInit /\ RegistryInit /\ RowInit /\ ConvInit

SetLimits ==
    /\ \E low \in Marks, high \in Marks : set_limits(low, high)
    /\ UNCHANGED <<regvars, rowvars, convvars>>

ClearLimits == clear_limits /\ UNCHANGED <<regvars, rowvars, convvars>>

AsSql ==
    /\ \E with_limits \in BOOLEAN, with_col_aliases \in BOOLEAN :
          as_sql(with_limits, with_col_aliases)
    /\ UNCHANGED <<regvars, rowvars, convvars>>

\* The caller replaces the query's ordering (Query.add_ordering /
\* clear_ordering of the base class)
BaseSetOrdering(ord) ==
    /\ ordering' = ord
    /\ last' = [op |-> "order_by"]
    /\ UNCHANGED <<low_mark, high_mark, extra_select, params, db_column, ret, phase>>

SetOrdering ==
    /\ \E ord \in Orderings \ {ordering} : BaseSetOrdering(ord)
    /\ UNCHANGED <<regvars, rowvars, convvars>>

Next == SetLimits \/ ClearLimits \/ AsSql \/ SetOrdering

Spec == Init /\ [][Next]_vars

(* ------------------------------------------------------------------ *)
(* SpecThreads: query_class called from several threads                *)
(* SpecSeq: query_class called by one caller at a time                 *)
(* ------------------------------------------------------------------ *)

InitRegistry == QueryPlain /\ RegistryInit /\ RowInit /\ ConvInit

CallAny ==
    /\ \E t \in Threads, c \in QueryClasses, d \in Databases : Call(t, c, d)
    /\ UNCHANGED <<qvars, rowvars, convvars>>

\* A call starts only when no other call is in progress
CallSeq ==
    /\ \A u \in Threads : pc[u] = "idle"
    /\ \E t \in Threads, c \in QueryClasses, d \in Databases : Call(t, c, d)
    /\ UNCHANGED <<qvars, rowvars, convvars>>

TryStep == (\E t \in Threads : Try(t)) /\ UNCHANGED <<qvars, rowvars, convvars>>

ClassStep == (\E t \in Threads : DefineClass(t)) /\ UNCHANGED <<qvars, rowvars, convvars>>

StoreStep == (\E t \in Threads : Store(t)) /\ UNCHANGED <<qvars, rowvars, convvars>>

NextThreads == CallAny \/ TryStep \/ ClassStep \/ StoreStep

SpecThreads == InitRegistry /\ [][NextThreads]_vars

NextSeq == CallSeq \/ TryStep \/ ClassStep \/ StoreStep

SpecSeq == InitRegistry /\ [][NextSeq]_vars

(* ------------------------------------------------------------------ *)
(* SpecRow: resolve_columns on the rows of a query                     *)
(* ------------------------------------------------------------------ *)

\* The extra-select mappings of a query, before and after set_limits
RowExtras == UserExtras \cup {SetItem(es, "rn", "1") : es \in UserExtras}

\* The values of a row
RowValues == {PyNone, PyInt(1), PyStr("x"), Lob(PyStr("blob"))}

\* The fields of a model: a CharField, a BooleanField, a DecimalField
RowFields == {Field(TRUE, FALSE, FALSE, "none"), Field(FALSE, TRUE, FALSE, "none"),
              Field(FALSE, FALSE, TRUE, "none")}

SeqsUpTo(S, n) == UNION {[1..k -> S] : k \in 0..n}

InitRow ==
    /\ low_mark = 0
    /\ high_mark = None
    /\ extra_select \in RowExtras
    /\ ordering = <<>>
    /\ params = <<>>
    /\ db_column = ""
    /\ last = [op |-> "init"]
    /\ ret = None
    /\ phase = "new"
    /\ RegistryInit
    /\ RowInit
    /\ ConvInit

\* One call of resolve_columns(row, fields) on the query
ResolveColumns ==
    /\ values = None
    /\ \E r \in SeqsUpTo(RowValues, MaxRow), fs \in SeqsUpTo(RowFields, MaxFields) :
          /\ row' = r
          /\ fields' = fs
          /\ values' = Some(resolve_columns(r, fs))
    /\ UNCHANGED <<qvars, regvars, convvars>>

NextRow == ResolveColumns

SpecRow == InitRow /\ [][NextRow]_vars

(* ------------------------------------------------------------------ *)
(* SpecConv: convert_values on one value and one field                 *)
(* ------------------------------------------------------------------ *)

\* Timestamps of the driver: the sentinel date 1900-01-01 and another
\* date, midnight and another time
Timestamps ==
    {Timestamp(n, y, mo, 1, h, mi, 0, us) :
        n \in BOOLEAN, y \in {1900, 2020}, mo \in {1, 5}, h \in {0, 14},
        mi \in {0, 30}, us \in {0, 250}}

\* The values convert_values is called with
ConvValues ==
    {PyNone, PyInt(0), PyInt(1), PyInt(2), PyFloat(0), PyFloat(100), PyFloat(314),
     PyStr("x"), Lob(PyStr("blob"))} \cup Timestamps

\* The fields convert_values is called with: none, or a field with any
\* combination of what the isinstance checks see
ConvFields ==
    {None} \cup {Field(e, b, d, t) : e \in BOOLEAN, b \in BOOLEAN, d \in BOOLEAN,
                                      t \in {"none", "date", "datetime", "time"}}

InitConv ==
    /\ QueryPlain
    /\ RegistryInit
    /\ RowInit
    /\ value_in \in ConvValues
    /\ field_in \in ConvFields
    /\ converted = None

\* One call of convert_values(value, field)
ConvertValues ==
    /\ converted = None
    /\ converted' = Some(convert_values(value_in, field_in))
    /\ UNCHANGED <<qvars, regvars, rowvars, value_in, field_in>>

NextConv == ConvertValues

SpecConv == InitConv /\ [][NextConv]_vars

(* ------------------------------------------------------------------ *)
(* Properties of set_limits, clear_limits and as_sql                   *)
(* ------------------------------------------------------------------ *)

\* A row bound is configured on the query: an offset or a high bound
LowSet == low_mark # 0

HighSet == high_mark # None

\* The last operation was as_sql(with_limits=True, ...)
CompiledWithLimits == last.op = "as_sql" /\ last.with_limits

\* The base as_sql output for the current query, limits disabled
BaseOutput(with_col_aliases) ==
    BaseAsSql(extra_select, ordering, params, low_mark, high_mark, FALSE, with_col_aliases)

\* The wrapped inner query, as the specification describes it
Wrapped == "SELECT * FROM (" \o BaseOutput(TRUE).sql \o ")"

\* C2: the extra-select mapping contains "rn" if and only if a low or a
\* high bound is set on the query.
C2_RnIffLimited == HasKey(extra_select, "rn") <=> (LowSet \/ HighSet)

\* C3: with a low bound L and a high bound H both set, as_sql with limits
\* returns the wrapped inner query followed by WHERE rn > L and
\* AND rn <= H, and the parameters of the inner query.
C3_BothBounds ==
    (CompiledWithLimits /\ LowSet /\ HighSet) =>
        /\ HasKey(extra_select, "rn")
        /\ ret = Some([sql |-> Wrapped \o " WHERE rn > " \o ToString(low_mark)
                                \o " AND rn <= " \o ToString(high_mark[1]),
                       params |-> params])

\* C4: with no row bound set, or with with_limits false, as_sql returns
\* the base output generated with limits disabled and the caller's
\* with_col_aliases, unchanged.
C4_Delegates ==
    (last.op = "as_sql" /\ (~last.with_limits \/ (~LowSet /\ ~HighSet))) =>
        /\ ~last.paged
        /\ ret = Some(BaseOutput(last.with_col_aliases))

C4_Witness ==
    /\ CompiledWithLimits /\ ~LowSet /\ ~HighSet
    /\ ~last.with_col_aliases
    /\ ret = Some(BaseOutput(FALSE))

\* C5: after set_limits with a bound followed by clear_limits, "rn" is
\* gone from the extra-select mapping and as_sql with limits returns the
\* base output with no rn column and no wrapping; clear_limits on a
\* mapping without "rn" leaves the mapping as it was.
C5_ClearedUnpaginated ==
    /\ phase = "cleared" =>
          /\ ~HasKey(extra_select, "rn")
          /\ CompiledWithLimits =>
                /\ ~last.paged
                /\ ret = Some(BaseAsSql(DelItem(extra_select, "rn"), ordering, params,
                                        0, None, FALSE, last.with_col_aliases))
    /\ (last.op = "clear_limits" /\ ~last.had_rn) => extra_select = last.before

C5_Witness == phase = "cleared" /\ CompiledWithLimits /\ ret # None

\* C7: as_sql performs the rewrite exactly when with_limits is true and a
\* high or a low bound is set, 0 included; and when it does and a high
\* bound H is set, the last clause is AND rn <= H.
C7_RewriteIffBound ==
    last.op = "as_sql" =>
        /\ last.paged <=> (last.with_limits /\ (HighSet \/ LowSet))
        /\ (last.paged /\ HighSet) =>
              last.result[Len(last.result)] = "AND rn <= " \o ToString(high_mark[1])

\* C8: with only a low bound L > 0 set, as_sql with limits returns the
\* wrapped query followed by WHERE rn > L and no upper-bound clause.
C8_LowOnly ==
    (CompiledWithLimits /\ low_mark > 0 /\ ~HighSet) =>
        /\ last.paged
        /\ HasKey(extra_select, "rn")
        /\ last.result = <<Wrapped, "WHERE rn > " \o ToString(low_mark)>>
        /\ ret = Some([sql |-> Wrapped \o " WHERE rn > " \o ToString(low_mark),
                       params |-> params])

C8_Witness == CompiledWithLimits /\ low_mark > 0 /\ ~HighSet /\ last.paged

\* C9: with only a high bound H set, as_sql with limits returns the
\* wrapped query filtered by WHERE rn > 0 AND rn <= H.
C9_HighOnly ==
    (CompiledWithLimits /\ ~LowSet /\ HighSet) =>
        ret = Some([sql |-> Wrapped \o " WHERE rn > 0 AND rn <= " \o ToString(high_mark[1]),
                    params |-> params])

(* ------------------------------------------------------------------ *)
(* Properties of query_class                                           *)
(* ------------------------------------------------------------------ *)

AllIdle == \A t \in Threads : pc[t] = "idle"

Cached == {c \in QueryClasses : _classes[c] # None}

\* C1: called by one caller at a time, every call for a base class returns
\* the class stored under it in the cache: the first call builds and
\* stores it, later calls return the stored one and build nothing, and
\* calls for other base classes leave the entry alone.
C1_SameClass ==
    /\ \A r \in returned : _classes[r.base] = Some(r.cls)
    /\ AllIdle => nclasses = Cardinality(Cached)

\* Both base classes are cached and one more call has returned
C1_Witness ==
    /\ AllIdle
    /\ Cardinality(Cached) = 2
    /\ ncalls > nclasses

\* C6 as stated: whatever the interleaving, no two calls return distinct
\* classes for the same base class.
C6_OnePerBase == \A r1, r2 \in returned : r1.base = r2.base => r1.cls = r2.cls

\* C6 amended: two calls return distinct classes for the same base class
\* only when a first-time call for it overlapped another one (its lookup
\* missed while another thread was building the class); at any time the
\* cache holds at most one class per base class, built for that base.
C6_OnePerBaseUnlessRaced ==
    /\ \A r1, r2 \in returned :
          (r1.base = r2.base /\ r1.cls # r2.cls) => r1.base \in raced
    /\ \A c \in Cached : _classes[c][1].base = c

\* Two racing calls returned distinct classes for one base class, and a
\* call for the other base class returned too
C6_Witness ==
    /\ AllIdle
    /\ \E r1, r2 \in returned : r1.base = r2.base /\ r1.cls # r2.cls
    /\ \E r \in returned : r.base \notin raced

(* ------------------------------------------------------------------ *)
(* Properties of resolve_columns                                       *)
(* ------------------------------------------------------------------ *)

\* The number of extra-select keys, and the row before and after them
ExtraCount == Len(extra_select)

Resolved == values # None /\ ~values[1].raised

ConvertedPlain ==
    converted # None /\ value_in.kind \in {"none", "int", "float", "str"}

FieldIs(f, flag) ==
    /\ f # None
    /\ CASE flag = "empty"   -> f[1].empty_strings_allowed
         [] flag = "boolean" -> f[1].boolean
         [] flag = "decimal" -> f[1].decimal

\* C11 as stated: the checks are applied in order, first match wins: null
\* with a field accepting the empty string gives ''; otherwise integer 1
\* or 0 with a boolean field gives True or False; otherwise a non-null
\* value (a number) with a decimal field gives the decimal of the
\* formatted number; otherwise the value is returned unchanged.
C11_IntegerOneOrZero ==
    ConvertedPlain =>
        LET v == value_in
            f == field_in
            out == converted[1]
        IN  IF v.kind = "none" /\ FieldIs(f, "empty") THEN out = PyStr("")
            ELSE IF v.kind = "int" /\ v.c \in {0, 100} /\ FieldIs(f, "boolean")
                 THEN out = PyBool(v.c = 100)
            ELSE IF v.kind # "none" /\ FieldIs(f, "decimal")
                 THEN IsNumber(v) => out = typecast_decimal(format_number(v))
            ELSE out = v

\* C11 amended: as stated, with the boolean check matching every number
\* equal to 1 or 0, the floats 1.0 and 0.0 included, and the decimal
\* check raising for a value that is not a number.
C11_NumberOneOrZero ==
    ConvertedPlain =>
        LET v == value_in
            f == field_in
            out == converted[1]
        IN  IF v.kind = "none" /\ FieldIs(f, "empty") THEN out = PyStr("")
            ELSE IF v.kind \in {"int", "float"} /\ v.c \in {0, 100} /\ FieldIs(f, "boolean")
                 THEN out = PyBool(v.c = 100)
            ELSE IF v.kind # "none" /\ FieldIs(f, "decimal")
                 THEN IF v.kind \in {"int", "float"}
                      THEN out = typecast_decimal(format_number(v))
                      ELSE out = Raised("TypeError")
            ELSE out = v

\* Integer 1 with a field that is both boolean and decimal gives True
C11_Witness ==
    /\ value_in = PyInt(1)
    /\ FieldIs(field_in, "boolean") /\ FieldIs(field_in, "decimal")
    /\ converted = Some(PyBool(TRUE))

\* convert_values was called on a driver timestamp with no field or a
\* field that is not a decimal field
ConvertedTimestamp ==
    /\ converted # None
    /\ value_in.kind = "timestamp"
    /\ ~FieldIs(field_in, "decimal")

\* The date/time type of the field: "none" without a type hint
FieldKind == IF field_in = None THEN "none" ELSE field_in[1].temporal

\* C12: a timestamp is disambiguated in this order, first match wins: a
\* datetime field keeps the full date-time; a date field gives the date;
\* a time field, or the date 1900-01-01, gives the time; midnight gives
\* the date; otherwise the full date-time.
C12_TimestampOrder ==
    /\ ConvertedTimestamp =>
          LET v == value_in
              out == converted[1]
              date == [kind |-> "date", year |-> v.year, month |-> v.month, day |-> v.day]
              time == [kind |-> "time", hour |-> v.hour, minute |-> v.minute,
                       second |-> v.second, microsecond |-> v.microsecond]
              full == [kind |-> "datetime", year |-> v.year, month |-> v.month,
                       day |-> v.day, hour |-> v.hour, minute |-> v.minute,
                       second |-> v.second, microsecond |-> v.microsecond]
          IN  IF FieldKind = "datetime" THEN out = full
              ELSE IF FieldKind = "date" THEN out = date
              ELSE IF FieldKind = "time" \/ (v.year = 1900 /\ v.month = 1 /\ v.day = 1)
                   THEN out = time
              ELSE IF v.hour = 0 /\ v.minute = 0 /\ v.second = 0 /\ v.microsecond = 0
                   THEN out = date
              ELSE out = full
    /\ (ConvertedTimestamp /\ FieldKind = "time"
          /\ value_in = Timestamp(FALSE, 1900, 1, 1, 14, 30, 0, 0)) =>
          converted[1] = [kind |-> "time", hour |-> 14, minute |-> 30, second |-> 0,
                          microsecond |-> 0]
    /\ (ConvertedTimestamp /\ FieldKind = "none"
          /\ value_in = Timestamp(FALSE, 2020, 5, 1, 0, 0, 0, 0)) =>
          converted[1] = [kind |-> "date", year |-> 2020, month |-> 5, day |-> 1]
    /\ (ConvertedTimestamp /\ FieldKind = "none"
          /\ value_in = Timestamp(FALSE, 1900, 1, 1, 0, 0, 0, 0)) =>
          converted[1] = [kind |-> "time", hour |-> 0, minute |-> 0, second |-> 0,
                          microsecond |-> 0]

\* 1900-01-01 00:00:00 with no field is returned as the time 00:00:00
C12_Witness ==
    /\ value_in = Timestamp(FALSE, 1900, 1, 1, 0, 0, 0, 0)
    /\ field_in = None
    /\ converted = Some([kind |-> "time", hour |-> 0, minute |-> 0, second |-> 0,
                         microsecond |-> 0])

(* ------------------------------------------------------------------ *)
(* Properties of the "rn" entry                                        *)
(* ------------------------------------------------------------------ *)

\* The last operation was an as_sql that took the paginated path
CompiledPaged == last.op = "as_sql" /\ last.paged

\* The ordering of the window function: the ORDER BY list joined with
\* ", ", or the quoted table and the quoted column of the first field
WindowOrdering ==
    IF ordering # <<>> THEN Join(ordering, ", ")
    ELSE "\"T\".\"" \o (IF db_column # "" THEN db_column ELSE "ID") \o "\""

\* pre_sql_setup, then get_columns, then get_ordering
OrderingReadLast ==
    /\ Len(last.calls) >= 3
    /\ SubSeq(last.calls, 1, 3) = <<"pre_sql_setup", "get_columns", "get_ordering">>

\* C13 as stated: after a paginated as_sql the "rn" entry equals
\* ROW_NUMBER() OVER (ORDER BY <ordering>), the ordering being read after
\* pre_sql_setup and get_columns.
C13_WindowExpression ==
    CompiledPaged =>
        /\ HasKey(extra_select, "rn")
        /\ Get(extra_select, "rn") = "ROW_NUMBER() OVER (ORDER BY " \o WindowOrdering \o ")"
        /\ OrderingReadLast

\* C13 amended: the entry equals ROW_NUMBER() OVER (ORDER BY <ordering> ),
\* with a space between the ordering and the closing parenthesis.
C13_WindowExpressionSpaced ==
    CompiledPaged =>
        /\ HasKey(extra_select, "rn")
        /\ Get(extra_select, "rn") = "ROW_NUMBER() OVER (ORDER BY " \o WindowOrdering \o " )"
        /\ OrderingReadLast

\* A paginated as_sql with a two-column ordering, and one with none on a
\* model whose first field names its column
C13_Witness ==
    /\ CompiledPaged
    /\ Len(ordering) = 2
    /\ Get(extra_select, "rn")
         = "ROW_NUMBER() OVER (ORDER BY \"T\".\"NAME\" ASC, \"T\".\"ID\" DESC )"

\* The window expression for the query's ordering as it is now
Window == "ROW_NUMBER() OVER (ORDER BY " \o WindowOrdering \o " )"

\* The inner SELECT generated with "rn" set to the window expression
InnerWithWindow ==
    BaseAsSql(SetItem(extra_select, "rn", Window), ordering, params,
              low_mark, high_mark, FALSE, TRUE).sql

\* After set_limits "rn" holds the placeholder; a paginated as_sql emits
\* the inner SELECT with the window expression of the current ordering
PlaceholderThenWindow ==
    /\ last.op = "set_limits" =>
          HasKey(extra_select, "rn") /\ Get(extra_select, "rn") = "1"
    /\ CompiledPaged =>
          /\ last.result[1] = "SELECT * FROM (" \o InnerWithWindow \o ")"
          /\ Get(extra_select, "rn") = Window

\* A step that writes anything but the placeholder under "rn" is a
\* paginated as_sql
WindowWrittenByAsSql ==
    (/\ HasKey(extra_select', "rn")
     /\ Get(extra_select', "rn") # "1"
     /\ (~HasKey(extra_select, "rn")
           \/ Get(extra_select, "rn") # Get(extra_select', "rn")))
    => (last'.op = "as_sql" /\ last'.paged)

\* C14: immediately after every set_limits "rn" holds a placeholder that
\* is no window expression; the window expression is written only by a
\* paginated as_sql; the inner SQL of every paginated as_sql carries the
\* window expression of the ordering as it is at that compile.
C14_PlaceholderThenFinalize == []PlaceholderThenWindow /\ [][WindowWrittenByAsSql]_vars

\* set_limits after an earlier paginated as_sql: the placeholder is back
C14_Witness ==
    /\ last.op = "set_limits"
    /\ Get(extra_select, "rn") = "1"
    /\ ret # None
    /\ \E lo \in 1..MaxMark :
          ret[1].sql = "SELECT * FROM (" \o InnerWithWindow \o ") WHERE rn > " \o ToString(lo)

(* ------------------------------------------------------------------ *)
(* Frame and idempotence of the query operations                       *)
(* ------------------------------------------------------------------ *)

\* The extra-select entries other than "rn", in their order
OtherExtras(es) == IF HasKey(es, "rn") THEN DelItem(es, "rn") ELSE es

\* A step leaves every entry but "rn" as it was, and a delegating as_sql
\* leaves the whole mapping as it was
OnlyRnTouched ==
    /\ OtherExtras(extra_select') = OtherExtras(extra_select)
    /\ \A i \in 1..Len(extra_select) :
          extra_select[i].key # "rn" =>
              /\ i <= Len(extra_select')
              /\ extra_select'[i] = extra_select[i]
    /\ (last'.op = "as_sql" /\ ~last'.paged) => extra_select' = extra_select

\* C16: across set_limits, clear_limits and as_sql the only extra-select
\* entry added, overwritten or removed is the one under "rn"; every other
\* entry keeps its value and its position, and a delegating as_sql
\* leaves the whole mapping, "rn" included, unchanged.
C16_OnlyRnTouched == [][OnlyRnTouched]_vars

\* clear_limits removed "rn" and the user's entry is still there
C16_Witness ==
    /\ last.op = "clear_limits"
    /\ last.had_rn
    /\ last.before = <<[key |-> "a", val |-> "x+1"], [key |-> "rn", val |-> "1"]>>
    /\ extra_select = <<[key |-> "a", val |-> "x+1"]>>

\* A step that is as_sql(with_limits=True, a) directly after the same call
RepeatedCompile ==
    /\ last.op = "as_sql"
    /\ last.with_limits
    /\ last'.op = "as_sql"
    /\ last'.again

\* With bounds set, the repeated call returns what the first returned and
\* leaves the query as the first left it
SecondCompileSame ==
    (RepeatedCompile /\ (LowSet \/ HighSet)) =>
        /\ ret' = ret
        /\ <<low_mark, high_mark, extra_select, ordering, params, db_column>>'
             = <<low_mark, high_mark, extra_select, ordering, params, db_column>>
        /\ last'.result = last.result
        /\ last'.paged = last.paged

\* C17: on a query with bounds set, two consecutive
\* as_sql(with_limits=True, a) calls return the same (sql, params) and
\* the second leaves the query as the first left it; the "rn" expression
\* the first wrote does not alter the result of the second.
C17_CompileIdempotent == [][SecondCompileSame]_vars

\* The second of two consecutive paginated compiles has returned
C17_Witness ==
    /\ last.op = "as_sql"
    /\ last.again
    /\ last.with_limits
    /\ last.paged
    /\ LowSet /\ HighSet
    /\ Get(extra_select, "rn") = Window

(* ------------------------------------------------------------------ *)
(* Properties of the cache under concurrent and repeated calls         *)
(* ------------------------------------------------------------------ *)

\* The base classes some finished call asked for
Requested == {r.base : r \in returned}

\* A thread has missed the lookup for c and has not stored yet
Building(c) ==
    \E t \in Threads : pc[t] \in {"class", "store"} /\ args[t].QueryClass = c

\* c has an entry and nobody is about to overwrite it
Settled(c) == _classes[c] # None /\ ~Building(c)

\* Once all calls have returned: one entry per requested base class, a
\* class built for that base class and returned by the call that built it
ConsistentWhenIdle ==
    AllIdle =>
        /\ Cached = Requested
        /\ \A c \in Cached :
              /\ _classes[c][1].base = c
              /\ \E r \in returned : r.base = c /\ r.cls = _classes[c][1]

\* An entry is never removed, and is replaced only by a thread storing
\* the class it built for the same base class; once settled, an entry
\* stays and every call that returns for its base class returns it
EntriesKept ==
    \A c \in QueryClasses :
        /\ _classes[c] # None => _classes'[c] # None
        /\ _classes'[c] # _classes[c] =>
              \E t \in Threads : /\ pc[t] = "store"
                                 /\ args[t].QueryClass = c
                                 /\ _classes'[c] = OracleQuery[t]
        /\ Settled(c) =>
              /\ _classes'[c] = _classes[c]
              /\ \A r \in returned' \ returned : r.base = c => r.cls = _classes[c][1]

\* C15: for every interleaving of concurrent first-time calls, once all
\* calls have returned the cache holds exactly one entry per requested
\* base class, built for that base class by one of the calls; no entry of
\* another base class is lost or overwritten; every later call returns
\* the stored class.
C15_RaceSafe == []ConsistentWhenIdle /\ [][EntriesKept]_vars

\* Two calls raced for one base class, a third asked for the other, and
\* all have returned
C15_Witness ==
    /\ AllIdle
    /\ raced # {}
    /\ Cardinality(Cached) = 2
    /\ nclasses = 3

\* C18: called by one caller at a time, a later call for the same base
\* class with another driver module returns the class the first call
\* built, which keeps the first call's driver module, and builds nothing.
C18_KeyedByBaseOnly ==
    /\ \A r1, r2 \in returned : r1.base = r2.base => r1.cls = r2.cls
    /\ \A r \in returned :
          /\ _classes[r.base] = Some(r.cls)
          /\ \E first \in returned : first.cls = r.cls /\ first.Database = r.cls.Database
    /\ AllIdle => nclasses = Cardinality(Requested)

\* A call with another driver module got the class built for the first
C18_Witness ==
    /\ AllIdle
    /\ \E r \in returned : r.Database # r.cls.Database

====
